---- MODULE Spec2Model ----
(***************************************************************************)
(* Booking and appointment-state engine of the online medical consultation *)
(* backend (Go + GORM on PostgreSQL): AppointmentService, SlotService,     *)
(* ChatService, PrescriptionService and VideoService over their            *)
(* repositories.  Tables are sequences of rows; a row's id is its index    *)
(* (auto-increment primary key).                                           *)
(***************************************************************************)
EXTENDS Integers, Sequences, FiniteSets, TLC

(* ---------------------------- bounds ----------------------------------- *)
MaxUser == 4
MaxTime == 2
MaxNow == 2
MaxAppointments == 2
MaxSlots == 1
MaxRows == 2
NumCalls == 2
MaxOverlapTime == 5
MaxCurated == 2
MaxMessages == 3

(* nil pointer / SQL NULL (SlotID *uint, StartedAt *time.Time, ...).  Ids   *)
(* and instants start at 1.                                                *)
NULL == 0

VARIABLES
    appointments,   \* table appointments
    slots,          \* table availability_slots
    sessions,       \* table video_sessions
    messages,       \* table messages
    prescriptions,  \* table prescriptions
    uploads,        \* number of files written under uploadPath
    now,            \* time.Now()
    ret,            \* what the last completed service call returned
    calls,          \* requests in flight, each between two storage accesses
    auditLogs       \* table audit_logs

vars ==
    <<appointments, slots, sessions, messages, prescriptions, uploads, now, ret, calls,
      auditLogs>>

(* ---------------------------- users ------------------------------------ *)
\* Table users: seedData creates a doctor and a patient, registration adds
\* more.  The directory is fixed: id 1 is a patient, 2 and 3 are doctors,
\* every other id has no row.
UserIds == 1..MaxUser

Role(u) ==
    CASE u = 1 -> "patient"
      [] u = 2 -> "doctor"
      [] u = 3 -> "doctor"
      [] OTHER -> "none"

Times == 1..MaxTime
Statuses == {"pending", "confirmed", "cancelled", "completed"}
ActiveStatuses == {"pending", "confirmed"}

IsActive(a) == a.status \in ActiveStatuses

(* ---------------------------- results ---------------------------------- *)
\* ret.err is "" for a nil error, otherwise the text of errors.New(...) (all
\* "unauthorized to ..." texts are written "unauthorized"), or "db error" for
\* an error handed up from a repository.  ret.appt is the appointment the
\* call is about, ret.target the slot, session or prescription it addresses,
\* ret.data the set of row ids the call handed back, ret.count the number it
\* handed back, ret.status the status a status change asked for, ret.fault
\* whether a storage access of the call failed, ret.args the time arguments
\* a CreateSlot call was given, or the item list a prescription call was
\* given or handed back.
NoRet ==
    [op |-> "", actor |-> NULL, appt |-> NULL, target |-> NULL, err |-> "",
     data |-> {}, count |-> 0, status |-> "", fault |-> FALSE, args |-> <<>>]

Ret(op, actor, appt, err, data) ==
    [NoRet EXCEPT !.op = op, !.actor = actor, !.appt = appt, !.err = err,
                  !.data = IF err = "" THEN data ELSE {}]

RetT(op, actor, appt, target, err, data) ==
    [Ret(op, actor, appt, err, data) EXCEPT !.target = target]

IsForbidden(err) == err = "unauthorized"

IsConflict(err) ==
    err \in {"time slot is already booked",
             "active video session already exists for this appointment",
             "cannot delete slot with existing appointment"}

\* A participant check that lets every doctor through.
IsParticipantOrAnyDoctor(a, u) == a.patientId = u \/ a.doctorId = u \/ Role(u) = "doctor"

\* The participant check the services make on the appointment they loaded:
\* appointment.PatientID != userID && appointment.DoctorID != userID is the
\* refusal.
IsParticipant(a, u) == a.patientId = u \/ a.doctorId = u

(* ---------------------------- appointmentRepository -------------------- *)
\* SQL comparison: a comparison with NULL is not true.
SqlLe(a, b) == a # NULL /\ b # NULL /\ a <= b

\* The WHERE clause without its third disjunct (the row inside the request).
ThreeClauseNoContainment(rowStart, rowEnd, startTime, endTime) ==
    \/ (SqlLe(rowStart, startTime) /\ SqlLe(startTime, rowEnd))
    \/ (SqlLe(rowStart, endTime) /\ SqlLe(endTime, rowEnd))

\* The WHERE clause of FindByDoctorAndTimeRange on one row's start_time and
\* end_time, for the requested startTime and endTime.
ThreeClause(rowStart, rowEnd, startTime, endTime) ==
    \/ (SqlLe(rowStart, startTime) /\ SqlLe(startTime, rowEnd))
    \/ (SqlLe(rowStart, endTime) /\ SqlLe(endTime, rowEnd))
    \/ (SqlLe(startTime, rowStart) /\ SqlLe(rowEnd, endTime))

FindByDoctorAndTimeRange(table, doctorID, startTime, endTime) ==
    {i \in 1..Len(table) :
        /\ table[i].doctorId = doctorID
        /\ ThreeClause(table[i].startTime, table[i].endTime, startTime, endTime)}

\* The index as its name reads: unique among confirmed appointments only.
BreaksUniqSlotConfirmedOnly(table, id, row) ==
    /\ row.slotId # NULL
    /\ row.status = "confirmed"
    /\ \E j \in 1..Len(table) :
          /\ j # id
          /\ table[j].slotId = row.slotId
          /\ table[j].status = "confirmed"

\* Partial unique index uniq_slot_confirmed ON appointments(slot_id) WHERE
\* status IN ('pending','confirmed'): would row `row` (at index id, or a new
\* row when id is past the end) break it?  NULL slot_ids never collide.
BreaksUniqSlot(table, id, row) ==
    /\ row.slotId # NULL
    /\ row.status \in ActiveStatuses
    /\ \E j \in 1..Len(table) :
          /\ j # id
          /\ table[j].slotId = row.slotId
          /\ table[j].status \in ActiveStatuses

\* The row db.Create writes for the models.Appointment built by
\* CreateAppointment.  The struct has no StartTime/EndTime field, so the
\* start_time and end_time columns the range query reads are never written:
\* they hold NULL in every row.  (The schema is the one the program starts
\* on: createIndexes already needs columns the structs do not declare.)
\* bookedStart/bookedEnd are no columns: they remember the range the booking
\* was requested for (req.StartTime, req.EndTime).
NewAppointment(table, req) ==
    [id |-> Len(table) + 1,
     patientId |-> req.patientId,
     doctorId |-> req.doctorId,
     slotId |-> req.slotId,
     status |-> "pending",
     notes |-> req.notes,
     startTime |-> NULL,
     endTime |-> NULL,
     bookedStart |-> req.startTime,
     bookedEnd |-> req.endTime]

(* ---------------------------- AppointmentService ----------------------- *)
\* One record shape carries the three request types: CreateAppointmentRequest
\* (patientId, doctorId, slotId, notes, startTime, endTime),
\* UpdateAppointmentStatusRequest (appointmentId, doctorId, status, notes) and
\* the arguments of CancelAppointment (appointmentId, userId).
NoReq ==
    [patientId |-> NULL, doctorId |-> NULL, slotId |-> NULL, notes |-> "",
     startTime |-> NULL, endTime |-> NULL, appointmentId |-> NULL,
     status |-> "", userId |-> NULL]

CreateRequests(patients, doctors, slotIds, notes, times) ==
    {[NoReq EXCEPT !.patientId = p, !.doctorId = d, !.slotId = s, !.notes = n,
                   !.startTime = st, !.endTime = en] :
        p \in patients, d \in doctors, s \in slotIds, n \in notes,
        st \in times, en \in times}

UpdateRequests(ids, actors, statuses, notes) ==
    {[NoReq EXCEPT !.appointmentId = a, !.doctorId = d, !.status = s, !.notes = n] :
        a \in ids, d \in actors, s \in statuses, n \in notes}

CancelRequests(ids, actors) ==
    {[NoReq EXCEPT !.appointmentId = a, !.userId = u] : a \in ids, u \in actors}

\* CreateAppointment up to the overlap check: the error it returns before the
\* insert, "" when it goes on to insert.
CreateCheck(table, req, t) ==
    IF Role(req.doctorId) # "doctor" THEN "doctor not found"
    ELSE IF Role(req.patientId) # "patient" THEN "patient not found"
    ELSE IF req.startTime < t THEN "start time cannot be in the past"
    ELSE IF req.endTime < req.startTime THEN "end time must be after start time"
    ELSE IF \E i \in FindByDoctorAndTimeRange(table, req.doctorId, req.startTime, req.endTime) :
                table[i].status # "cancelled"
         THEN "time slot is already booked"
    ELSE ""

\* appointmentRepo.Create: the error of the INSERT.
CreateError(table, req) ==
    IF BreaksUniqSlot(table, Len(table) + 1, NewAppointment(table, req))
    THEN "db error" ELSE ""

\* A doctor check that asks for the role only, not for the appointment's doctor.
UpdateCheckAnyDoctor(table, req) ==
    IF ~(req.appointmentId \in 1..Len(table)) THEN "appointment not found"
    ELSE IF Role(req.doctorId) # "doctor" THEN "unauthorized"
    ELSE ""

\* UpdateAppointmentStatus up to the write: FindByID and the doctor check.
UpdateCheck(table, req) ==
    IF ~(req.appointmentId \in 1..Len(table)) THEN "appointment not found"
    ELSE IF table[req.appointmentId].doctorId # req.doctorId THEN "unauthorized"
    ELSE ""

\* An update that writes the notes of the request even when they are empty.
UpdatedRowOverwritingNotes(row, req) ==
    [row EXCEPT !.status = req.status, !.notes = req.notes]

\* The appointment UpdateAppointmentStatus saves, from the row it read.
UpdatedRow(row, req) ==
    [row EXCEPT !.status = req.status,
                !.notes = IF req.notes # "" THEN req.notes ELSE row.notes]

\* CancelAppointment up to the write: FindByID, participant and status check.
CancelCheck(table, req) ==
    IF ~(req.appointmentId \in 1..Len(table)) THEN "appointment not found"
    ELSE IF ~IsParticipant(table[req.appointmentId], req.userId) THEN "unauthorized"
    ELSE IF table[req.appointmentId].status \in {"completed", "cancelled"}
         THEN "appointment cannot be cancelled"
    ELSE ""

CancelledRow(row) == [row EXCEPT !.status = "cancelled"]

\* appointmentRepo.Update: db.Save writes every column the struct maps, from
\* the struct in hand; start_time and end_time are not among them.
SaveError(table, row) ==
    IF BreaksUniqSlot(table, row.id, row) THEN "db error" ELSE ""

Saved(table, row) ==
    [table EXCEPT ![row.id] =
        [@ EXCEPT !.patientId = row.patientId, !.doctorId = row.doctorId,
                  !.slotId = row.slotId, !.status = row.status, !.notes = row.notes]]

\* CreateAppointment runs in no transaction: when LoadRelations fails after
\* the insert (fault), the method returns the error and the row stays.
CreateAppointment(req, fault) ==
    LET e1 == CreateCheck(appointments, req, now)
        e2 == IF e1 # "" THEN e1 ELSE CreateError(appointments, req)
        e3 == IF e2 = "" /\ fault THEN "db error" ELSE e2
        id == Len(appointments) + 1
    IN  /\ appointments' = IF e2 = "" THEN Append(appointments, NewAppointment(appointments, req))
                           ELSE appointments
        /\ ret' = [RetT("CreateAppointment", req.patientId, IF e3 = "" THEN id ELSE NULL,
                        req.slotId, e3, {id})
                    EXCEPT !.fault = fault /\ e2 = ""]
        /\ UNCHANGED <<slots, sessions, messages, prescriptions, uploads, now, calls, auditLogs>>

UpdateAppointmentStatus(req) ==
    LET e1 == UpdateCheck(appointments, req)
        row == UpdatedRow(appointments[req.appointmentId], req)
        e2 == IF e1 # "" THEN e1 ELSE SaveError(appointments, row)
    IN  /\ appointments' = IF e2 = "" THEN Saved(appointments, row) ELSE appointments
        /\ ret' = [Ret("UpdateAppointmentStatus", req.doctorId, req.appointmentId, e2,
                       {req.appointmentId})
                    EXCEPT !.status = req.status]
        /\ UNCHANGED <<slots, sessions, messages, prescriptions, uploads, now, calls, auditLogs>>

CancelAppointment(req) ==
    LET e1 == CancelCheck(appointments, req)
        row == CancelledRow(appointments[req.appointmentId])
        e2 == IF e1 # "" THEN e1 ELSE SaveError(appointments, row)
    IN  /\ appointments' = IF e2 = "" THEN Saved(appointments, row) ELSE appointments
        /\ ret' = [Ret("CancelAppointment", req.userId, req.appointmentId, e2, {})
                    EXCEPT !.status = "cancelled"]
        /\ UNCHANGED <<slots, sessions, messages, prescriptions, uploads, now, calls, auditLogs>>

\* A lookup that no longer finds an appointment once it is cancelled.
GetAppointmentDetailsActiveOnly(appointmentID, userID) ==
    LET e == IF ~(appointmentID \in 1..Len(appointments)) THEN "appointment not found"
             ELSE IF appointments[appointmentID].status = "cancelled" THEN "appointment not found"
             ELSE IF ~IsParticipant(appointments[appointmentID], userID) THEN "unauthorized"
             ELSE ""
    IN  /\ ret' = Ret("GetAppointmentDetails", userID, appointmentID, e, {appointmentID})
        /\ UNCHANGED <<appointments, slots, sessions, messages, prescriptions, uploads, now, calls, auditLogs>>

\* GetAppointmentDetails: FindByID (appointments has no row deleted: the
\* repository's Delete is called by no service), the participant check,
\* LoadRelations.
GetAppointmentDetails(appointmentID, userID) ==
    LET e == IF ~(appointmentID \in 1..Len(appointments)) THEN "appointment not found"
             ELSE IF ~IsParticipant(appointments[appointmentID], userID) THEN "unauthorized"
             ELSE ""
    IN  /\ ret' = Ret("GetAppointmentDetails", userID, appointmentID, e, {appointmentID})
        /\ UNCHANGED <<appointments, slots, sessions, messages, prescriptions, uploads, now, calls, auditLogs>>

\* time.Now() moves on.
Tick ==
    /\ now < MaxNow
    /\ now' = now + 1
    /\ UNCHANGED <<appointments, slots, sessions, messages, prescriptions, uploads, ret, calls, auditLogs>>

(* ---------------------------- calls in flight -------------------------- *)
\* The service methods run in no transaction and take no lock: between the
\* reads at the top of a method and its write, other requests run.  A call
\* in flight holds its request, the row its FindByID returned and, once it
\* is done, the error it returned.
NoRow ==
    [id |-> NULL, patientId |-> NULL, doctorId |-> NULL, slotId |-> NULL,
     status |-> "", notes |-> "", startTime |-> NULL, endTime |-> NULL,
     bookedStart |-> NULL, bookedEnd |-> NULL]

Call(op, req, row, err) ==
    [op |-> op, req |-> req, row |-> row, err |-> err,
     pc |-> IF err = "" THEN "read" ELSE "done"]

ReadRow(table, id) == IF id \in 1..Len(table) THEN table[id] ELSE NoRow

\* CreateAppointment, lines 43-74: the checks and the overlap query.
BeginCreate(req) ==
    /\ Len(calls) < NumCalls
    /\ calls' = Append(calls, Call("create", req, NoRow, CreateCheck(appointments, req, now)))
    /\ UNCHANGED <<appointments, slots, sessions, messages, prescriptions, uploads, now, ret, auditLogs>>

\* CreateAppointment, lines 76-94: the insert.
FinishCreate(p) ==
    LET c == calls[p]
        e == CreateError(appointments, c.req)
    IN  /\ c.op = "create" /\ c.pc = "read"
        /\ appointments' = IF e = "" THEN Append(appointments, NewAppointment(appointments, c.req))
                           ELSE appointments
        /\ calls' = [calls EXCEPT ![p].pc = "done", ![p].err = e]
        /\ UNCHANGED <<slots, sessions, messages, prescriptions, uploads, now, ret, auditLogs>>

\* UpdateAppointmentStatus, lines 133-142: FindByID and the doctor check.
BeginUpdate(req) ==
    /\ Len(calls) < NumCalls
    /\ calls' = Append(calls, Call("update", req, ReadRow(appointments, req.appointmentId),
                                   UpdateCheck(appointments, req)))
    /\ UNCHANGED <<appointments, slots, sessions, messages, prescriptions, uploads, now, ret, auditLogs>>

\* UpdateAppointmentStatus, lines 144-152: Save of the row read, changed.
FinishUpdate(p) ==
    LET c == calls[p]
        row == UpdatedRow(c.row, c.req)
        e == SaveError(appointments, row)
    IN  /\ c.op = "update" /\ c.pc = "read"
        /\ appointments' = IF e = "" THEN Saved(appointments, row) ELSE appointments
        /\ calls' = [calls EXCEPT ![p].pc = "done", ![p].err = e]
        /\ UNCHANGED <<slots, sessions, messages, prescriptions, uploads, now, ret, auditLogs>>

\* CancelAppointment, lines 164-178: FindByID and the checks.
BeginCancel(req) ==
    /\ Len(calls) < NumCalls
    /\ calls' = Append(calls, Call("cancel", req, ReadRow(appointments, req.appointmentId),
                                   CancelCheck(appointments, req)))
    /\ UNCHANGED <<appointments, slots, sessions, messages, prescriptions, uploads, now, ret, auditLogs>>

\* CancelAppointment, lines 180-182: Save of the row read, cancelled.
FinishCancel(p) ==
    LET c == calls[p]
        row == CancelledRow(c.row)
        e == SaveError(appointments, row)
    IN  /\ c.op = "cancel" /\ c.pc = "read"
        /\ appointments' = IF e = "" THEN Saved(appointments, row) ELSE appointments
        /\ calls' = [calls EXCEPT ![p].pc = "done", ![p].err = e]
        /\ UNCHANGED <<slots, sessions, messages, prescriptions, uploads, now, ret, auditLogs>>

(* ---------------------------- SlotService ------------------------------ *)
\* time.Parse(time.RFC3339, s): a time string is written as the instant it
\* denotes, and NULL stands for every text time.Parse rejects.
ParseOk(s) == s # NULL

NewSlot(table, doctorID, req) ==
    [id |-> Len(table) + 1, doctorId |-> doctorID, startTime |-> req.startTime,
     endTime |-> req.endTime, status |-> "open", deleted |-> FALSE]

SlotRequests(starts, ends) ==
    {[startTime |-> st, endTime |-> en] : st \in starts, en \in ends}

\* slotRepository.FindByID: db.First with no Preload.  A soft-deleted row is
\* not found; the Appointment association of the struct returned stays nil.
SlotStored(table, id) == id \in 1..Len(table) /\ ~table[id].deleted

SlotFindByID(table, id) ==
    [id |-> id, doctorId |-> table[id].doctorId, status |-> table[id].status,
     appointment |-> NULL]

\* The range check with start = end let through.
CreateSlotCheckAllowsEmpty(req, t) ==
    IF ~ParseOk(req.startTime) THEN "invalid start time format"
    ELSE IF ~ParseOk(req.endTime) THEN "invalid end time format"
    ELSE IF req.startTime < t THEN "start time cannot be in the past"
    ELSE IF req.startTime > req.endTime THEN "start time must be before end time"
    ELSE ""

CreateSlotCheck(req, t) ==
    IF ~ParseOk(req.startTime) THEN "invalid start time format"
    ELSE IF ~ParseOk(req.endTime) THEN "invalid end time format"
    ELSE IF req.startTime < t THEN "start time cannot be in the past"
    ELSE IF req.startTime >= req.endTime THEN "start time must be before end time"
    ELSE ""

CreateSlot(doctorID, req) ==
    LET e == CreateSlotCheck(req, now)
        id == Len(slots) + 1
    IN  /\ slots' = IF e = "" THEN Append(slots, NewSlot(slots, doctorID, req)) ELSE slots
        /\ ret' = [RetT("CreateSlot", doctorID, NULL, IF e = "" THEN id ELSE NULL, e, {id})
                    EXCEPT !.args = <<req.startTime, req.endTime>>]
        /\ UNCHANGED <<appointments, sessions, messages, prescriptions, uploads, now, calls, auditLogs>>

\* UpdateSlot's checks without the one on the status asked for.
UpdateSlotCheckAnyStatus(table, slotID, doctorID, status) ==
    IF ~SlotStored(table, slotID) THEN "db error"
    ELSE IF SlotFindByID(table, slotID).doctorId # doctorID THEN "unauthorized"
    ELSE ""

\* UpdateSlot up to the Save.
UpdateSlotCheck(table, slotID, doctorID, status) ==
    IF ~SlotStored(table, slotID) THEN "db error"
    ELSE IF SlotFindByID(table, slotID).doctorId # doctorID THEN "unauthorized"
    ELSE IF status # "" /\ status \notin {"open", "blocked"} THEN "invalid status"
    ELSE ""

UpdateSlot(slotID, doctorID, status) ==
    LET e == UpdateSlotCheck(slots, slotID, doctorID, status)
    IN  /\ slots' = IF e = "" /\ status # "" THEN [slots EXCEPT ![slotID].status = status]
                    ELSE slots
        /\ ret' = [RetT("UpdateSlot", doctorID, NULL, slotID, e, {slotID}) EXCEPT !.status = status]
        /\ UNCHANGED <<appointments, sessions, messages, prescriptions, uploads, now, calls, auditLogs>>

\* DeleteSlot's checks without the owner check.
DeleteSlotCheckNoOwner(table, slotID, doctorID) ==
    IF ~SlotStored(table, slotID) THEN "db error"
    ELSE IF SlotFindByID(table, slotID).appointment # NULL
         THEN "cannot delete slot with existing appointment"
    ELSE ""

DeleteSlotCheck(table, slotID, doctorID) ==
    IF ~SlotStored(table, slotID) THEN "db error"
    ELSE IF SlotFindByID(table, slotID).doctorId # doctorID THEN "unauthorized"
    ELSE IF SlotFindByID(table, slotID).appointment # NULL
         THEN "cannot delete slot with existing appointment"
    ELSE ""

\* slotRepo.Delete: the model has DeletedAt, so the row is soft-deleted.
DeleteSlot(slotID, doctorID) ==
    LET e == DeleteSlotCheck(slots, slotID, doctorID)
    IN  /\ slots' = IF e = "" THEN [slots EXCEPT ![slotID].deleted = TRUE] ELSE slots
        /\ ret' = RetT("DeleteSlot", doctorID, NULL, slotID, e, {})
        /\ UNCHANGED <<appointments, sessions, messages, prescriptions, uploads, now, calls, auditLogs>>

\* slotRepository.FindAvailableByDoctorIDAndDate: the rows (not deleted) of
\* the doctor with start_time >= startDate AND start_time <= endDate AND
\* status = 'open'.
FindAvailableByDoctorIDAndDate(table, doctorID, startDate, endDate) ==
    {i \in 1..Len(table) :
        /\ ~table[i].deleted
        /\ table[i].doctorId = doctorID
        /\ startDate <= table[i].startTime /\ table[i].startTime <= endDate
        /\ table[i].status = "open"}

\* GetAvailableSlots: a date is written as the instant its day starts at
\* (NULL: a text time.Parse rejects), a day being one unit of time long.
\* Of the rows found, those with StartTime.After(now) and status open.
GetAvailableSlots(doctorID, date) ==
    LET e == IF ~ParseOk(date) THEN "invalid date format" ELSE ""
        found == IF e = "" THEN FindAvailableByDoctorIDAndDate(slots, doctorID, date, date + 1)
                 ELSE {}
    IN  /\ ret' = [RetT("GetAvailableSlots", NULL, NULL, doctorID, e,
                        {i \in found : slots[i].startTime > now /\ slots[i].status = "open"})
                    EXCEPT !.args = <<date>>]
        /\ UNCHANGED <<appointments, slots, sessions, messages, prescriptions, uploads, now, calls, auditLogs>>

(* ---------------------------- VideoService ----------------------------- *)
\* Rows of video_sessions: [id, appointmentId, startedAt, endedAt]; the room
\* id is 16 random bytes and plays no part in any decision.
NewVideoSession(table, appointmentID) ==
    [id |-> Len(table) + 1, appointmentId |-> appointmentID,
     startedAt |-> NULL, endedAt |-> NULL]

\* Liveness read as "not ended", started or not.
IsNotEnded(s) == s.endedAt = NULL

IsLive(s) == s.startedAt # NULL /\ s.endedAt = NULL

LiveSessions(table, appointmentID) ==
    {i \in 1..Len(table) : table[i].appointmentId = appointmentID /\ IsLive(table[i])}

Max(S) == CHOOSE x \in S : \A y \in S : y <= x

\* videoSessionRepo.FindActiveByAppointment: the newest row of the
\* appointment with started_at IS NOT NULL AND ended_at IS NULL, NULL with
\* an error when there is none or when the query fails (fault).
FindActiveByAppointment(table, appointmentID, fault) ==
    IF fault \/ LiveSessions(table, appointmentID) = {} THEN NULL
    ELSE Max(LiveSessions(table, appointmentID))

\* CreateVideoSession up to the insert.  The error of the lookup is not
\* handed up: with err != nil the method goes on to the insert.
CreateVideoSessionCheck(appts, table, appointmentID, userID, fault) ==
    IF ~(appointmentID \in 1..Len(appts)) THEN "appointment not found"
    ELSE IF ~IsParticipant(appts[appointmentID], userID) THEN "unauthorized"
    ELSE IF /\ FindActiveByAppointment(table, appointmentID, fault) # NULL
            /\ IsLive(table[FindActiveByAppointment(table, appointmentID, fault)])
         THEN "active video session already exists for this appointment"
    ELSE ""

CreateVideoSession(appointmentID, userID, fault) ==
    LET e == CreateVideoSessionCheck(appointments, sessions, appointmentID, userID, fault)
        id == Len(sessions) + 1
    IN  /\ sessions' = IF e = "" THEN Append(sessions, NewVideoSession(sessions, appointmentID))
                       ELSE sessions
        /\ ret' = [RetT("CreateVideoSession", userID, appointmentID,
                        IF e = "" THEN id ELSE NULL, e, {id})
                    EXCEPT !.fault = fault /\ e \in {"", "active video session already exists for this appointment"}]
        /\ UNCHANGED <<appointments, slots, messages, prescriptions, uploads, now, calls, auditLogs>>

\* The appointment a session belongs to, NULL when there is no such session.
SessionAppointment(table, sessionID) ==
    IF sessionID \in 1..Len(table) THEN table[sessionID].appointmentId ELSE NULL

ValidateSessionAccess(appts, table, sessionID, userID) ==
    IF ~(sessionID \in 1..Len(table)) THEN "video session not found"
    ELSE IF ~(table[sessionID].appointmentId \in 1..Len(appts)) THEN "appointment not found"
    ELSE IF ~IsParticipant(appts[table[sessionID].appointmentId], userID) THEN "unauthorized"
    ELSE ""

\* A start that reopens the session: ended_at is cleared with it.
UpdateStartedAtReopening(table, sessionID, t) ==
    [table EXCEPT ![sessionID].startedAt = t, ![sessionID].endedAt = NULL]

\* videoSessionRepo.UpdateStartedAt / UpdateEndedAt: one column of one row.
UpdateStartedAt(table, sessionID, t) == [table EXCEPT ![sessionID].startedAt = t]

UpdateEndedAt(table, sessionID, t) == [table EXCEPT ![sessionID].endedAt = t]

StartVideoSession(sessionID, userID) ==
    LET e == ValidateSessionAccess(appointments, sessions, sessionID, userID)
    IN  /\ sessions' = IF e = "" THEN UpdateStartedAt(sessions, sessionID, now) ELSE sessions
        /\ ret' = RetT("StartVideoSession", userID, SessionAppointment(sessions, sessionID),
                       sessionID, e, {})
        /\ UNCHANGED <<appointments, slots, messages, prescriptions, uploads, now, calls, auditLogs>>

EndVideoSession(sessionID, userID) ==
    LET e == ValidateSessionAccess(appointments, sessions, sessionID, userID)
    IN  /\ sessions' = IF e = "" THEN UpdateEndedAt(sessions, sessionID, now) ELSE sessions
        /\ ret' = RetT("EndVideoSession", userID, SessionAppointment(sessions, sessionID),
                       sessionID, e, {})
        /\ UNCHANGED <<appointments, slots, messages, prescriptions, uploads, now, calls, auditLogs>>

\* VideoHandler.GetVideoSession: the service's GetVideoSession takes no user;
\* the handler calls ValidateSessionAccess next and answers with the session
\* only when that returned nil.
GetVideoSession(sessionID, userID) ==
    LET e == ValidateSessionAccess(appointments, sessions, sessionID, userID)
    IN  /\ ret' = RetT("GetVideoSession", userID, SessionAppointment(sessions, sessionID),
                       sessionID, e, {sessionID})
        /\ UNCHANGED <<appointments, slots, sessions, messages, prescriptions, uploads, now, calls, auditLogs>>

FindSessionsByAppointmentID(table, appointmentID) ==
    {i \in 1..Len(table) : table[i].appointmentId = appointmentID}

GetVideoSessionsByAppointment(appointmentID, userID) ==
    LET e == IF ~(appointmentID \in 1..Len(appointments)) THEN "appointment not found"
             ELSE IF ~IsParticipant(appointments[appointmentID], userID) THEN "unauthorized"
             ELSE ""
    IN  /\ ret' = Ret("GetVideoSessionsByAppointment", userID, appointmentID, e,
                      FindSessionsByAppointmentID(sessions, appointmentID))
        /\ UNCHANGED <<appointments, slots, sessions, messages, prescriptions, uploads, now, calls, auditLogs>>

\* GetSignalingInfo: the room id of the session and a token for it.
GetSignalingInfo(sessionID, userID) ==
    LET e == ValidateSessionAccess(appointments, sessions, sessionID, userID)
    IN  /\ ret' = [RetT("GetSignalingInfo", userID, SessionAppointment(sessions, sessionID),
                        sessionID, e, {sessionID})
                    EXCEPT !.count = IF e = "" THEN 1 ELSE 0]
        /\ UNCHANGED <<appointments, slots, sessions, messages, prescriptions, uploads, now, calls, auditLogs>>

(* ---------------------------- messageRepository ------------------------ *)
\* Rows of messages: [id, appointmentId, senderUserId, readAt]; body and
\* attachment URL are stored as given and decide nothing.
NewMessage(table, appointmentID, senderUserID) ==
    [id |-> Len(table) + 1, appointmentId |-> appointmentID,
     senderUserId |-> senderUserID, readAt |-> NULL]

\* The WHERE clause without its read_at condition.
UnreadIgnoringReadAt(table, appointmentID, userID) ==
    {i \in 1..Len(table) :
        /\ table[i].appointmentId = appointmentID
        /\ table[i].senderUserId # userID}

\* The WHERE clause without its sender condition.
UnreadAnySender(table, appointmentID, userID) ==
    {i \in 1..Len(table) :
        /\ table[i].appointmentId = appointmentID
        /\ table[i].readAt = NULL}

\* WHERE appointment_id = ? AND sender_user_id != ? AND read_at IS NULL
Unread(table, appointmentID, userID) ==
    {i \in 1..Len(table) :
        /\ table[i].appointmentId = appointmentID
        /\ table[i].senderUserId # userID
        /\ table[i].readAt = NULL}

MarkAsRead(table, appointmentID, userID, t) ==
    [i \in 1..Len(table) |->
        IF i \in Unread(table, appointmentID, userID)
        THEN [table[i] EXCEPT !.readAt = t] ELSE table[i]]

\* FindByAppointmentID: newest first, OFFSET offset LIMIT limit.  Ids grow
\* with created_at, so the k-th newest row is the one with k-1 newer rows.
FindMessagesByAppointmentID(table, appointmentID, limit, offset) ==
    LET all == {i \in 1..Len(table) : table[i].appointmentId = appointmentID}
        Newer(i) == Cardinality({j \in all : j > i})
    IN  {i \in all : Newer(i) >= offset /\ Newer(i) < offset + limit}

(* ---------------------------- ChatService ------------------------------ *)
\* The first two steps of every ChatService method: FindByID of the
\* appointment, then the participant check.
ChatCheck(appts, appointmentID, userID) ==
    IF ~(appointmentID \in 1..Len(appts)) THEN "appointment not found"
    ELSE IF ~IsParticipant(appts[appointmentID], userID) THEN "unauthorized"
    ELSE ""

SendMessage(appointmentID, senderUserID) ==
    LET e == ChatCheck(appointments, appointmentID, senderUserID)
        id == Len(messages) + 1
    IN  /\ messages' = IF e = "" THEN Append(messages, NewMessage(messages, appointmentID, senderUserID))
                       ELSE messages
        /\ ret' = RetT("SendMessage", senderUserID, appointmentID,
                       IF e = "" THEN id ELSE NULL, e, {id})
        /\ UNCHANGED <<appointments, slots, sessions, prescriptions, uploads, now, calls, auditLogs>>

GetMessages(appointmentID, userID, limit, offset) ==
    LET e == ChatCheck(appointments, appointmentID, userID)
    IN  /\ ret' = Ret("GetMessages", userID, appointmentID, e,
                      FindMessagesByAppointmentID(messages, appointmentID, limit, offset))
        /\ UNCHANGED <<appointments, slots, sessions, messages, prescriptions, uploads, now, calls, auditLogs>>

\* UploadAttachment: after the two checks the file is written under
\* uploadPath and its URL returned.
UploadAttachment(appointmentID, userID) ==
    LET e == ChatCheck(appointments, appointmentID, userID)
    IN  /\ uploads' = IF e = "" THEN uploads + 1 ELSE uploads
        /\ ret' = [Ret("UploadAttachment", userID, appointmentID, e, {})
                    EXCEPT !.count = IF e = "" THEN 1 ELSE 0]
        /\ UNCHANGED <<appointments, slots, sessions, messages, prescriptions, now, calls, auditLogs>>

MarkMessagesAsRead(appointmentID, userID) ==
    LET e == ChatCheck(appointments, appointmentID, userID)
    IN  /\ messages' = IF e = "" THEN MarkAsRead(messages, appointmentID, userID, now)
                       ELSE messages
        /\ ret' = Ret("MarkMessagesAsRead", userID, appointmentID, e, {})
        /\ UNCHANGED <<appointments, slots, sessions, prescriptions, uploads, now, calls, auditLogs>>

GetUnreadCount(appointmentID, userID) ==
    LET e == ChatCheck(appointments, appointmentID, userID)
    IN  /\ ret' = [Ret("GetUnreadCount", userID, appointmentID, e, {})
                    EXCEPT !.count = IF e = "" THEN Cardinality(Unread(messages, appointmentID, userID))
                                     ELSE 0]
        /\ UNCHANGED <<appointments, slots, sessions, messages, prescriptions, uploads, now, calls, auditLogs>>

(* ---------------------------- encoding/json ---------------------------- *)
\* A Go string is a sequence of characters.  A PrescriptionItem is a record
\* of five strings, an item list a sequence of items.  The JSON text of a
\* list is written as the sequence of its objects, an object as the sequence
\* of its members <<key, body>>, body being the characters between the
\* quotes of the JSON string.
\* The fields of PrescriptionItem with their json tags, in field order.
ItemTags ==
    <<<<"medicationName", "medication_name">>, <<"dosage", "dosage">>,
      <<"frequency", "frequency">>, <<"duration", "duration">>,
      <<"instructions", "instructions">>>>

\* json.Marshal of a string: quote and backslash get a backslash, < is
\* written \u003c (HTML escaping is on), any other character stays.
RECURSIVE EscapeString(_)
EscapeString(s) ==
    IF s = <<>> THEN <<>>
    ELSE (CASE Head(s) = "\"" -> <<"\\", "\"">>
            [] Head(s) = "\\" -> <<"\\", "\\">>
            [] Head(s) = "<" -> <<"\\", "u", "0", "0", "3", "c">>
            [] OTHER -> <<Head(s)>>) \o EscapeString(Tail(s))

\* json.Unmarshal of a string body: a backslash takes the next character,
\* or with u the four hex digits after it.
RECURSIVE UnescapeString(_)
UnescapeString(t) ==
    IF t = <<>> THEN <<>>
    ELSE IF Head(t) # "\\" THEN <<Head(t)>> \o UnescapeString(Tail(t))
    ELSE IF t[2] = "u"
         THEN <<IF SubSeq(t, 3, 6) = <<"0", "0", "3", "c">> THEN "<" ELSE "?">>
              \o UnescapeString(SubSeq(t, 7, Len(t)))
    ELSE <<t[2]>> \o UnescapeString(SubSeq(t, 3, Len(t)))

\* json.Marshal(req.Items): every field of every item, under its tag.
MarshalItems(items) ==
    [i \in 1..Len(items) |->
        [k \in 1..Len(ItemTags) |-> <<ItemTags[k][2], EscapeString(items[i][ItemTags[k][1]])>>]]

\* Decoding that leaves the string bodies as they are in the text.
UnmarshalItemsRaw(text) ==
    [i \in 1..Len(text) |->
        [f \in {ItemTags[k][1] : k \in 1..Len(ItemTags)} |->
            LET tag == (CHOOSE k \in 1..Len(ItemTags) : ItemTags[k][1] = f)
                found == {m \in 1..Len(text[i]) : text[i][m][1] = ItemTags[tag][2]}
            IN  IF found = {} THEN <<>> ELSE text[i][Max(found)][2]]]

\* json.Unmarshal([]byte(prescription.ItemsJSON), &items) into a fresh
\* slice: a field takes the last member with its tag, "" when there is none.
UnmarshalItems(text) ==
    [i \in 1..Len(text) |->
        [f \in {ItemTags[k][1] : k \in 1..Len(ItemTags)} |->
            LET tag == (CHOOSE k \in 1..Len(ItemTags) : ItemTags[k][1] = f)
                found == {m \in 1..Len(text[i]) : text[i][m][1] = ItemTags[tag][2]}
            IN  IF found = {} THEN <<>> ELSE UnescapeString(text[i][Max(found)][2])]]

(* ---------------------------- PrescriptionService ---------------------- *)
\* Rows of prescriptions: [id, appointmentId, itemsJSON, notes,
\* createdByDoctorId, deleted].
PrescriptionItem(name, dosage, instructions) ==
    [medicationName |-> name, dosage |-> dosage, frequency |-> <<"3", "x">>,
     duration |-> <<"7", "d">>, instructions |-> instructions]

\* The item lists of the requests: two items with characters json escapes,
\* and one item whose dosage reads like an escape.
ItemLists ==
    {<<PrescriptionItem(<<"A", "<">>, <<"5">>, <<"\"", "\\">>),
       PrescriptionItem(<<"B">>, <<"1">>, <<>>)>>,
     <<PrescriptionItem(<<"C">>, <<"\\", "u">>, <<>>)>>}

NewPrescription(table, appointmentID, doctorID, items, notes) ==
    [id |-> Len(table) + 1, appointmentId |-> appointmentID, itemsJSON |-> MarshalItems(items),
     notes |-> notes, createdByDoctorId |-> doctorID, deleted |-> FALSE]

\* prescriptionRepo.FindByID: a soft-deleted row is not found.
PrescriptionStored(table, id) == id \in 1..Len(table) /\ ~table[id].deleted

PrescriptionAppointment(table, id) ==
    IF PrescriptionStored(table, id) THEN table[id].appointmentId ELSE NULL

FindPrescriptionsByAppointmentID(table, appointmentID) ==
    {i \in 1..Len(table) : table[i].appointmentId = appointmentID /\ ~table[i].deleted}

\* The check with the comparison to the appointment's doctor left out.
CreatePrescriptionCheckAnyDoctor(appts, appointmentID, doctorID) ==
    IF ~(appointmentID \in 1..Len(appts)) THEN "appointment not found"
    ELSE IF Role(doctorID) # "doctor" THEN "doctor not found"
    ELSE ""

\* CreatePrescription up to the insert.
CreatePrescriptionCheck(appts, appointmentID, doctorID) ==
    IF ~(appointmentID \in 1..Len(appts)) THEN "appointment not found"
    ELSE IF appts[appointmentID].doctorId # doctorID THEN "unauthorized"
    ELSE IF Role(doctorID) # "doctor" THEN "doctor not found"
    ELSE ""

CreatePrescription(appointmentID, doctorID, items, notes) ==
    LET e == CreatePrescriptionCheck(appointments, appointmentID, doctorID)
        id == Len(prescriptions) + 1
    IN  /\ prescriptions' =
              IF e = "" THEN Append(prescriptions,
                                    NewPrescription(prescriptions, appointmentID, doctorID, items, notes))
              ELSE prescriptions
        /\ ret' = [RetT("CreatePrescription", doctorID, appointmentID,
                        IF e = "" THEN id ELSE NULL, e, {id})
                    EXCEPT !.args = items]
        /\ UNCHANGED <<appointments, slots, sessions, messages, uploads, now, calls, auditLogs>>

GetPrescriptions(appointmentID, userID) ==
    LET e == IF ~(appointmentID \in 1..Len(appointments)) THEN "appointment not found"
             ELSE IF ~IsParticipant(appointments[appointmentID], userID) THEN "unauthorized"
             ELSE ""
    IN  /\ ret' = Ret("GetPrescriptions", userID, appointmentID, e,
                      FindPrescriptionsByAppointmentID(prescriptions, appointmentID))
        /\ UNCHANGED <<appointments, slots, sessions, messages, prescriptions, uploads, now, calls, auditLogs>>

\* GetPrescriptionDetails: FindByID of the prescription, FindByID of its
\* appointment, participant check.
PrescriptionDetailsCheck(appts, table, prescriptionID, userID) ==
    IF ~PrescriptionStored(table, prescriptionID) THEN "prescription not found"
    ELSE IF ~(table[prescriptionID].appointmentId \in 1..Len(appts)) THEN "appointment not found"
    ELSE IF ~IsParticipant(appts[table[prescriptionID].appointmentId], userID) THEN "unauthorized"
    ELSE ""

GetPrescriptionDetails(prescriptionID, userID) ==
    LET e == PrescriptionDetailsCheck(appointments, prescriptions, prescriptionID, userID)
    IN  /\ ret' = RetT("GetPrescriptionDetails", userID,
                       PrescriptionAppointment(prescriptions, prescriptionID),
                       prescriptionID, e, {prescriptionID})
        /\ UNCHANGED <<appointments, slots, sessions, messages, prescriptions, uploads, now, calls, auditLogs>>

\* The write check made a participant check: the patient passes too.
PrescriptionWriteCheckParticipant(appts, table, prescriptionID, doctorID) ==
    IF ~PrescriptionStored(table, prescriptionID) THEN "prescription not found"
    ELSE IF ~(table[prescriptionID].appointmentId \in 1..Len(appts)) THEN "appointment not found"
    ELSE IF ~IsParticipant(appts[table[prescriptionID].appointmentId], doctorID) THEN "unauthorized"
    ELSE ""

\* UpdatePrescription and DeletePrescription: FindByID of the prescription,
\* FindByID of its appointment, then appointment.DoctorID against the caller.
PrescriptionWriteCheck(appts, table, prescriptionID, doctorID) ==
    IF ~PrescriptionStored(table, prescriptionID) THEN "prescription not found"
    ELSE IF ~(table[prescriptionID].appointmentId \in 1..Len(appts)) THEN "appointment not found"
    ELSE IF appts[table[prescriptionID].appointmentId].doctorId # doctorID THEN "unauthorized"
    ELSE ""

UpdatePrescription(prescriptionID, doctorID, items, notes) ==
    LET e == PrescriptionWriteCheck(appointments, prescriptions, prescriptionID, doctorID)
    IN  /\ prescriptions' =
              IF e = "" THEN [prescriptions EXCEPT ![prescriptionID].itemsJSON = MarshalItems(items),
                                                   ![prescriptionID].notes = notes]
              ELSE prescriptions
        /\ ret' = [RetT("UpdatePrescription", doctorID,
                        PrescriptionAppointment(prescriptions, prescriptionID),
                        prescriptionID, e, {prescriptionID})
                    EXCEPT !.args = items]
        /\ UNCHANGED <<appointments, slots, sessions, messages, uploads, now, calls, auditLogs>>

DeletePrescription(prescriptionID, userID) ==
    LET e == PrescriptionWriteCheck(appointments, prescriptions, prescriptionID, userID)
    IN  /\ prescriptions' =
              IF e = "" THEN [prescriptions EXCEPT ![prescriptionID].deleted = TRUE]
              ELSE prescriptions
        /\ ret' = RetT("DeletePrescription", userID,
                       PrescriptionAppointment(prescriptions, prescriptionID),
                       prescriptionID, e, {})
        /\ UNCHANGED <<appointments, slots, sessions, messages, uploads, now, calls, auditLogs>>

\* GetPrescriptionItems(prescription), for a prescription the caller holds:
\* the items decoded from its ItemsJSON.
GetPrescriptionItems(prescriptionID) ==
    /\ PrescriptionStored(prescriptions, prescriptionID)
    /\ ret' = [RetT("GetPrescriptionItems", NULL,
                     PrescriptionAppointment(prescriptions, prescriptionID),
                     prescriptionID, "", {prescriptionID})
                 EXCEPT !.args = UnmarshalItems(prescriptions[prescriptionID].itemsJSON)]
    /\ UNCHANGED <<appointments, slots, sessions, messages, prescriptions, uploads, now, calls, auditLogs>>

(* ---------------------------- AuditService ----------------------------- *)
\* Rows of audit_logs: [id, userId, action, entity, entityId, metaJSON, at].
\* The goroutine LogUserAction or LogSystemAction starts is a call in flight
\* holding the arguments of its CreateAuditLog; nobody waits for it.  meta
\* is "nil", "value" (json.Marshal encodes it) or "unsupported" (it has no
\* encoding: a channel, a func).

\* The goroutine, with its error handed to whoever completed a call last.
CreateAuditLogSurfacing(p, fault) ==
    LET c == calls[p]
        e == IF c.req.meta = "unsupported" THEN "failed to marshal meta data"
             ELSE IF fault THEN "db error" ELSE ""
    IN  /\ c.op = "audit" /\ c.pc = "go"
        /\ auditLogs' =
              IF e = ""
              THEN Append(auditLogs,
                          [id |-> Len(auditLogs) + 1, userId |-> c.req.userId,
                           action |-> c.req.action, entity |-> c.req.entity,
                           entityId |-> c.req.entityId,
                           metaJSON |-> IF c.req.meta = "nil" THEN "" ELSE "{}",
                           at |-> now])
              ELSE auditLogs
        /\ calls' = [calls EXCEPT ![p].pc = "done", ![p].err = e]
        /\ ret' = IF e = "" THEN ret ELSE [ret EXCEPT !.err = e]
        /\ UNCHANGED <<appointments, slots, sessions, messages, prescriptions, uploads, now>>

\* The body of the goroutine: CreateAuditLog (json.Marshal of a meta that is
\* not nil, then auditRepo.Create, which can fail), its error printed and
\* dropped.
CreateAuditLog(p, fault) ==
    LET c == calls[p]
        e == IF c.req.meta = "unsupported" THEN "failed to marshal meta data"
             ELSE IF fault THEN "db error" ELSE ""
    IN  /\ c.op = "audit" /\ c.pc = "go"
        /\ auditLogs' =
              IF e = ""
              THEN Append(auditLogs,
                          [id |-> Len(auditLogs) + 1, userId |-> c.req.userId,
                           action |-> c.req.action, entity |-> c.req.entity,
                           entityId |-> c.req.entityId,
                           metaJSON |-> IF c.req.meta = "nil" THEN "" ELSE "{}",
                           at |-> now])
              ELSE auditLogs
        /\ calls' = [calls EXCEPT ![p].pc = "done", ![p].err = e]
        /\ UNCHANGED <<appointments, slots, sessions, messages, prescriptions, uploads, now, ret>>

\* LogUserAction: go func() { ... }() and return.
LogUserAction(userID, action, entity, entityID, meta) ==
    /\ Len(calls) < NumCalls
    /\ calls' = Append(calls,
                       [op |-> "audit",
                        req |-> [userId |-> userID, action |-> action, entity |-> entity,
                                 entityId |-> entityID, meta |-> meta],
                        row |-> NoRow, err |-> "", pc |-> "go"])
    /\ UNCHANGED <<appointments, slots, sessions, messages, prescriptions, uploads, now, ret, auditLogs>>

\* LogSystemAction: the same with no user.
LogSystemAction(action, entity, entityID, meta) ==
    /\ Len(calls) < NumCalls
    /\ calls' = Append(calls,
                       [op |-> "audit",
                        req |-> [userId |-> NULL, action |-> action, entity |-> entity,
                                 entityId |-> entityID, meta |-> meta],
                        row |-> NoRow, err |-> "", pc |-> "go"])
    /\ UNCHANGED <<appointments, slots, sessions, messages, prescriptions, uploads, now, ret, auditLogs>>

(* ---------------------------- specifications --------------------------- *)
\* The state after Migrate on an empty database: users seeded, no rows in
\* any other table, nothing uploaded, no request running.
Init ==
    /\ appointments = <<>>
    /\ slots = <<>>
    /\ sessions = <<>>
    /\ messages = <<>>
    /\ prescriptions = <<>>
    /\ uploads = 0
    /\ now = 1
    /\ ret = NoRet
    /\ calls = <<>>
    /\ auditLogs = <<>>

\* ---- SpecBooking: bookings and status changes on the doctors' timelines,
\* one call at a time, by every user; no slot attached.
BookingCreate ==
    /\ Len(appointments) < MaxAppointments
    /\ \E req \in CreateRequests(UserIds, UserIds, {NULL}, {""}, Times), fault \in BOOLEAN :
          CreateAppointment(req, fault)

BookingUpdate ==
    \E req \in UpdateRequests(1..MaxAppointments, UserIds, Statuses, {""}) :
        UpdateAppointmentStatus(req)

BookingCancel ==
    \E req \in CancelRequests(1..MaxAppointments, UserIds) : CancelAppointment(req)

NextBooking == BookingCreate \/ BookingUpdate \/ BookingCancel \/ Tick

SpecBooking == Init /\ [][NextBooking]_vars

\* ---- SpecBookRace: NumCalls CreateAppointment calls running concurrently.
RaceBeginCreate ==
    \E req \in CreateRequests(UserIds, UserIds, {NULL}, {""}, Times) : BeginCreate(req)

RaceFinishCreate == \E p \in 1..Len(calls) : FinishCreate(p)

NextBookRace == RaceBeginCreate \/ RaceFinishCreate

SpecBookRace == Init /\ [][NextBookRace]_vars

\* ---- SpecStatusRace: one appointment, and NumCalls status changes on it
\* running concurrently.
StatusBook ==
    /\ appointments = <<>>
    /\ \E req \in CreateRequests(UserIds, UserIds, {NULL}, {""}, {now}) : CreateAppointment(req, FALSE)

StatusBeginUpdate ==
    \E req \in UpdateRequests({1}, UserIds, Statuses, {""}) : BeginUpdate(req)

StatusFinishUpdate == \E p \in 1..Len(calls) : FinishUpdate(p)

StatusBeginCancel ==
    \E req \in CancelRequests({1}, UserIds) : BeginCancel(req)

StatusFinishCancel == \E p \in 1..Len(calls) : FinishCancel(p)

NextStatusRace ==
    \/ StatusBook
    \/ StatusBeginUpdate
    \/ StatusFinishUpdate
    \/ StatusBeginCancel
    \/ StatusFinishCancel

SpecStatusRace == Init /\ [][NextStatusRace]_vars

\* ---- SpecSlotBooking: bookings that name a slot, and their status changes.
SlotIds == 1..MaxSlots

SlotBookingCreate ==
    /\ Len(appointments) < MaxAppointments
    /\ \E req \in CreateRequests({1}, {2, 3}, {NULL} \cup SlotIds, {""}, {MaxTime}) :
          CreateAppointment(req, FALSE)

SlotBookingUpdate ==
    \E req \in UpdateRequests(1..MaxAppointments, {2, 3}, Statuses, {""}) :
        UpdateAppointmentStatus(req)

SlotBookingCancel ==
    \E req \in CancelRequests(1..MaxAppointments, {1, 2, 3}) : CancelAppointment(req)

NextSlotBooking == SlotBookingCreate \/ SlotBookingUpdate \/ SlotBookingCancel

SpecSlotBooking == Init /\ [][NextSlotBooking]_vars

\* ---- SpecSlots: doctors curate slots while patients book and cancel.
SlotsCreate ==
    /\ Len(slots) < MaxSlots
    /\ \E d \in {2, 3}, req \in SlotRequests({NULL} \cup Times, 1..(MaxTime + 1)) :
          CreateSlot(d, req)

SlotsUpdate ==
    \E id \in SlotIds, d \in {2, 3}, s \in {"", "open", "blocked", "closed"} :
        UpdateSlot(id, d, s)

SlotsDelete == \E id \in SlotIds, d \in {2, 3} : DeleteSlot(id, d)

SlotsBook ==
    /\ Len(appointments) < MaxAppointments
    /\ \E req \in CreateRequests({1}, {2, 3}, {NULL} \cup SlotIds, {""}, {MaxTime}) :
          CreateAppointment(req, FALSE)

SlotsCancel ==
    \E req \in CancelRequests(1..MaxAppointments, {1, 2}) : CancelAppointment(req)

NextSlots ==
    \/ SlotsCreate
    \/ SlotsUpdate
    \/ SlotsDelete
    \/ SlotsBook
    \/ SlotsCancel
    \/ \E d \in {2, 3}, date \in {NULL} \cup Times : GetAvailableSlots(d, date)

SpecSlots == Init /\ [][NextSlots]_vars

\* ---- SpecVideo: video sessions of booked appointments.
VideoBook ==
    /\ Len(appointments) < MaxAppointments
    /\ \E req \in CreateRequests({1}, {2, 3}, {NULL}, {""}, {MaxTime}) : CreateAppointment(req, FALSE)

VideoCreate ==
    /\ Len(sessions) < MaxRows
    /\ \E a \in 1..MaxAppointments, u \in {1, 2, 3}, fault \in BOOLEAN :
          CreateVideoSession(a, u, fault)

VideoStart == \E s \in 1..MaxRows, u \in {1, 2, 3} : StartVideoSession(s, u)

VideoEnd == \E s \in 1..MaxRows, u \in {1, 2, 3} : EndVideoSession(s, u)

NextVideo == VideoBook \/ VideoCreate \/ VideoStart \/ VideoEnd

SpecVideo == Init /\ [][NextVideo]_vars

\* ---- SpecAccess: one appointment, and every chat, prescription and video
\* operation on it by its patient, its doctor and the other doctor.
MaxSubRows == 1

Actors == {1, 2, 3}

AccessBook ==
    /\ appointments = <<>>
    /\ \E req \in CreateRequests({1}, {2, 3}, {NULL}, {""}, {MaxTime}) : CreateAppointment(req, FALSE)

AccessSendMessage ==
    /\ Len(messages) < MaxSubRows
    /\ \E u \in Actors : SendMessage(1, u)

AccessGetMessages == \E u \in Actors : GetMessages(1, u, MaxSubRows, 0)

AccessUploadAttachment ==
    /\ uploads < MaxSubRows
    /\ \E u \in Actors : UploadAttachment(1, u)

AccessMarkMessagesAsRead == \E u \in Actors : MarkMessagesAsRead(1, u)

AccessGetUnreadCount == \E u \in Actors : GetUnreadCount(1, u)

AccessCreatePrescription ==
    /\ Len(prescriptions) < MaxSubRows
    /\ \E u \in Actors, items \in ItemLists : CreatePrescription(1, u, items, "")

AccessGetPrescriptions == \E u \in Actors : GetPrescriptions(1, u)

AccessGetPrescriptionDetails ==
    \E p \in 1..MaxSubRows, u \in Actors : GetPrescriptionDetails(p, u)

AccessUpdatePrescription ==
    \E p \in 1..MaxSubRows, u \in Actors, items \in ItemLists : UpdatePrescription(p, u, items, "u")

AccessDeletePrescription ==
    \E p \in 1..MaxSubRows, u \in Actors : DeletePrescription(p, u)

AccessCreateVideoSession ==
    /\ Len(sessions) < MaxSubRows
    /\ \E u \in Actors : CreateVideoSession(1, u, FALSE)

AccessGetVideoSession == \E s \in 1..MaxSubRows, u \in Actors : GetVideoSession(s, u)

AccessStartVideoSession == \E s \in 1..MaxSubRows, u \in Actors : StartVideoSession(s, u)

AccessEndVideoSession == \E s \in 1..MaxSubRows, u \in Actors : EndVideoSession(s, u)

AccessGetVideoSessionsByAppointment == \E u \in Actors : GetVideoSessionsByAppointment(1, u)

AccessGetSignalingInfo == \E s \in 1..MaxSubRows, u \in Actors : GetSignalingInfo(s, u)

NextAccess ==
    \/ AccessBook
    \/ AccessSendMessage
    \/ AccessGetMessages
    \/ AccessUploadAttachment
    \/ AccessMarkMessagesAsRead
    \/ AccessGetUnreadCount
    \/ AccessCreatePrescription
    \/ AccessGetPrescriptions
    \/ AccessGetPrescriptionDetails
    \/ AccessUpdatePrescription
    \/ \E p \in 1..MaxSubRows : GetPrescriptionItems(p)
    \/ AccessDeletePrescription
    \/ AccessCreateVideoSession
    \/ AccessGetVideoSession
    \/ AccessStartVideoSession
    \/ AccessEndVideoSession
    \/ AccessGetVideoSessionsByAppointment
    \/ AccessGetSignalingInfo

SpecAccess == Init /\ [][NextAccess]_vars

\* ---- SpecStatusAuth: status changes with notes, asked for by every user,
\* on appointments with and without a slot.
AuthBook ==
    /\ Len(appointments) < MaxAppointments
    /\ \E req \in CreateRequests({1}, {2, 3}, {NULL} \cup SlotIds, {""}, {MaxTime}) :
          CreateAppointment(req, FALSE)

AuthUpdate ==
    \E req \in UpdateRequests(1..MaxAppointments, UserIds, Statuses, {"", "n"}) :
        UpdateAppointmentStatus(req)

AuthCancel ==
    \E req \in CancelRequests(1..MaxAppointments, UserIds) : CancelAppointment(req)

NextStatusAuth ==
    \/ AuthBook
    \/ AuthUpdate
    \/ AuthCancel
    \/ \E a \in 1..MaxAppointments, u \in UserIds : GetAppointmentDetails(a, u)

SpecStatusAuth == Init /\ [][NextStatusAuth]_vars

\* ---- SpecOverlap: the range query of FindByDoctorAndTimeRange as a
\* function of its inputs: one row of doctor 2 whose start_time and end_time
\* hold a range, and a request range for either doctor.
OverlapTimes == 1..MaxOverlapTime

InitOverlap ==
    /\ appointments \in
          {<<[NoRow EXCEPT !.id = 1, !.patientId = 1, !.doctorId = 2, !.status = "pending",
                           !.startTime = a, !.endTime = b,
                           !.bookedStart = a, !.bookedEnd = b]>> :
              a \in OverlapTimes, b \in OverlapTimes} \ {<<>>}
    /\ appointments[1].startTime < appointments[1].endTime
    /\ slots = <<>>
    /\ sessions = <<>>
    /\ messages = <<>>
    /\ prescriptions = <<>>
    /\ uploads = 0
    /\ now = 1
    /\ ret = NoRet
    /\ calls = <<>>
    /\ auditLogs = <<>>

\* One run of the query; the request stays in calls, the rows found in ret.
OverlapQuery(doctorID, startTime, endTime) ==
    /\ startTime < endTime
    /\ calls' = <<[Call("query", [NoReq EXCEPT !.doctorId = doctorID, !.startTime = startTime,
                                                !.endTime = endTime], NoRow, "")
                    EXCEPT !.pc = "done"]>>
    /\ ret' = Ret("FindByDoctorAndTimeRange", NULL, NULL, "",
                  FindByDoctorAndTimeRange(appointments, doctorID, startTime, endTime))
    /\ UNCHANGED <<appointments, slots, sessions, messages, prescriptions, uploads, now, auditLogs>>

NextOverlap ==
    \E d \in {2, 3}, st \in OverlapTimes, en \in OverlapTimes : OverlapQuery(d, st, en)

SpecOverlap == InitOverlap /\ [][NextOverlap]_vars

\* ---- SpecSlotCuration: the doctors create, update and delete slots while
\* time passes; time strings may be unparsable (NULL).
CurCreate ==
    /\ Len(slots) < MaxCurated
    /\ \E d \in {2, 3}, req \in SlotRequests({NULL} \cup Times, {NULL} \cup Times) :
          CreateSlot(d, req)

CurUpdate ==
    \E id \in 1..MaxCurated, d \in {2, 3}, s \in {"", "open", "blocked", "closed"} :
        UpdateSlot(id, d, s)

CurDelete == \E id \in 1..MaxCurated, d \in {2, 3} : DeleteSlot(id, d)

NextSlotCuration == CurCreate \/ CurUpdate \/ CurDelete \/ Tick

SpecSlotCuration == Init /\ [][NextSlotCuration]_vars

\* ---- SpecChat: the chats of the booked appointments: messages are sent,
\* marked read and counted by the patient and the doctors while time passes.
ChatBook ==
    /\ Len(appointments) < MaxAppointments
    /\ \E req \in CreateRequests({1}, {2, 3}, {NULL}, {""}, {MaxTime}) :
          CreateAppointment(req, FALSE)

ChatSend ==
    /\ Len(messages) < MaxMessages
    /\ \E a \in 1..MaxAppointments, u \in Actors : SendMessage(a, u)

ChatMarkRead == \E a \in 1..MaxAppointments, u \in Actors : MarkMessagesAsRead(a, u)

ChatUnreadCount == \E a \in 1..MaxAppointments, u \in Actors : GetUnreadCount(a, u)

NextChat == ChatBook \/ ChatSend \/ ChatMarkRead \/ ChatUnreadCount \/ Tick

SpecChat == Init /\ [][NextChat]_vars

\* ---- SpecAudit: a patient books with a doctor and either cancels; after
\* its operation a caller logs it, the system logs on its own, and the
\* goroutines run whenever they run, or not at all.
NextAudit ==
    \/ /\ Len(appointments) < MaxAppointments
       /\ \E req \in CreateRequests({1}, {2}, {NULL}, {""}, {MaxTime}) : CreateAppointment(req, FALSE)
    \/ \E req \in CancelRequests(1..MaxAppointments, {1, 2}) : CancelAppointment(req)
    \/ /\ ret.op # ""
       /\ \E meta \in {"nil", "value", "unsupported"} :
              LogUserAction(ret.actor, ret.op, "appointment", ret.appt, meta)
    \/ \E meta \in {"nil", "unsupported"} : LogSystemAction("cleanup", "system", NULL, meta)
    \/ \E p \in 1..Len(calls), fault \in BOOLEAN : CreateAuditLog(p, fault)
    \/ Tick

SpecAudit == Init /\ [][NextAudit]_vars

(* ======================= claims on SpecBooking ========================= *)
\* Two ranges share at least one instant.
RangesOverlap(s1, e1, s2, e2) == s1 <= e2 /\ s2 <= e1

BookedOverlap(a, b) == RangesOverlap(a.bookedStart, a.bookedEnd, b.bookedStart, b.bookedEnd)

\* C1: after any sequence of CreateAppointment, UpdateAppointmentStatus and
\* CancelAppointment calls, no two distinct active (pending or confirmed)
\* appointments of one doctor have overlapping time ranges.
C1_NoActiveOverlap ==
    \A i, j \in 1..Len(appointments) :
        (/\ i # j
         /\ appointments[i].doctorId = appointments[j].doctorId
         /\ IsActive(appointments[i])
         /\ IsActive(appointments[j]))
        => ~BookedOverlap(appointments[i], appointments[j])

\* The step is a service call returning (ret' is its result), not the clock.
CallStep == now' = now

StatusOps == {"UpdateAppointmentStatus", "CancelAppointment"}
TerminalStatuses == {"cancelled", "completed"}

\* C3: cancelled and completed are terminal: a status-change call on an
\* appointment whose status is cancelled or completed is rejected and the
\* status stays what it was, whoever calls.
C3_TerminalStatuses ==
    [][(/\ CallStep
        /\ ret'.op \in StatusOps
        /\ ret'.appt \in 1..Len(appointments)
        /\ appointments[ret'.appt].status \in TerminalStatuses)
       => (/\ ret'.err # ""
           /\ appointments'[ret'.appt].status = appointments[ret'.appt].status)]_vars

\* The transition table: pending -> confirmed by the doctor, pending ->
\* cancelled and confirmed -> cancelled by the patient or the doctor,
\* confirmed -> completed by the doctor.
AllowedTransition(a, from, to, actor) ==
    \/ from = "pending" /\ to = "confirmed" /\ actor = a.doctorId
    \/ from = "pending" /\ to = "cancelled" /\ actor \in {a.patientId, a.doctorId}
    \/ from = "confirmed" /\ to = "cancelled" /\ actor \in {a.patientId, a.doctorId}
    \/ from = "confirmed" /\ to = "completed" /\ actor = a.doctorId

\* C4: a status-change request whose (from, to, actor) combination is not
\* in the transition table returns an error and leaves the status unchanged.
C4_TransitionTable ==
    [][(/\ CallStep
        /\ ret'.op \in StatusOps
        /\ ret'.appt \in 1..Len(appointments)
        /\ ~AllowedTransition(appointments[ret'.appt], appointments[ret'.appt].status,
                              ret'.status, ret'.actor))
       => (/\ ret'.err # ""
           /\ appointments'[ret'.appt].status = appointments[ret'.appt].status)]_vars

(* ======================= claims on SpecBookRace ======================== *)
AllDone == Len(calls) = NumCalls /\ \A p \in 1..Len(calls) : calls[p].pc = "done"

\* The requests went past the checks that do not look at other bookings.
Valid(req) ==
    /\ Role(req.doctorId) = "doctor"
    /\ Role(req.patientId) = "patient"
    /\ req.startTime >= now
    /\ req.endTime >= req.startTime

SameDoctorOverlapping ==
    \A p, q \in 1..Len(calls) :
        /\ calls[p].op = "create"
        /\ Valid(calls[p].req)
        /\ calls[p].req.doctorId = calls[q].req.doctorId
        /\ RangesOverlap(calls[p].req.startTime, calls[p].req.endTime,
                         calls[q].req.startTime, calls[q].req.endTime)

\* C2: of the CreateAppointment calls for one doctor with mutually
\* overlapping ranges, under every interleaving of their overlap checks and
\* inserts exactly one succeeds and every other fails with a conflict error.
C2_ExactlyOneBooking ==
    (AllDone /\ SameDoctorOverlapping)
    => /\ Cardinality({p \in 1..Len(calls) : calls[p].err = ""}) = 1
       /\ \A p \in 1..Len(calls) : calls[p].err # "" => IsConflict(calls[p].err)

(* ======================= claims on SpecStatusRace ====================== *)
\* C5: a CancelAppointment and a confirming UpdateAppointmentStatus that
\* both read one pending appointment resolve as one of the two sequential
\* orders does: a cancellation that reported success is not overwritten by
\* the confirm, so the appointment ends cancelled.
C5_NoLostCancel ==
    \A p, q \in 1..Len(calls) :
        (/\ calls[p].op = "cancel" /\ calls[q].op = "update"
         /\ calls[q].req.status = "confirmed"
         /\ calls[p].req.appointmentId = calls[q].req.appointmentId
         /\ calls[p].row.status = "pending" /\ calls[q].row.status = "pending"
         /\ calls[p].pc = "done" /\ calls[q].pc = "done"
         /\ calls[p].err = "" /\ Len(calls) = 2)
        => appointments[calls[p].req.appointmentId].status = "cancelled"

(* ======================= claims on SpecAccess ========================== *)
SubResourceOps ==
    {"SendMessage", "GetMessages", "UploadAttachment", "MarkMessagesAsRead", "GetUnreadCount",
     "CreatePrescription", "GetPrescriptions", "GetPrescriptionDetails", "UpdatePrescription",
     "DeletePrescription",
     "CreateVideoSession", "GetVideoSession", "StartVideoSession", "EndVideoSession",
     "GetVideoSessionsByAppointment", "GetSignalingInfo"}

\* The call that has just returned was made on appointment ret'.appt, or on
\* a sub-resource of it, by a user who is neither its patient nor its doctor.
OutsiderCall ==
    /\ ret'.op \in SubResourceOps
    /\ ret'.appt \in 1..Len(appointments)
    /\ ret'.actor # appointments[ret'.appt].patientId
    /\ ret'.actor # appointments[ret'.appt].doctorId

\* C6: every chat, prescription and video operation invoked on an
\* appointment, or on a sub-resource of it, by a user who is neither its
\* patient nor its doctor returns a forbidden error, returns no data and
\* changes no state.
C6_OutsiderForbidden ==
    [][OutsiderCall
       => (/\ IsForbidden(ret'.err)
           /\ ret'.data = {}
           /\ ret'.count = 0
           /\ UNCHANGED <<appointments, slots, sessions, messages, prescriptions, uploads>>)]_vars

\* An outsider asked for the messages of an appointment that has some, and
\* was refused.
C6_Witness ==
    /\ ret.op = "GetMessages"
    /\ ret.appt \in 1..Len(appointments)
    /\ ret.actor \notin {appointments[ret.appt].patientId, appointments[ret.appt].doctorId}
    /\ \E i \in 1..Len(messages) : messages[i].appointmentId = ret.appt
    /\ IsForbidden(ret.err)

(* ======================= claims on SpecVideo =========================== *)
\* C7: after any sequence of CreateVideoSession, StartVideoSession and
\* EndVideoSession calls, every appointment has at most one video session
\* with startedAt set and endedAt unset.
C7_OneLiveSession ==
    \A i, j \in 1..Len(sessions) :
        (/\ i # j
         /\ sessions[i].appointmentId = sessions[j].appointmentId
         /\ sessions[i].startedAt # NULL /\ sessions[i].endedAt = NULL)
        => ~(sessions[j].startedAt # NULL /\ sessions[j].endedAt = NULL)

\* A participant's CreateVideoSession on an existing appointment has just
\* returned.
ParticipantCreate ==
    /\ ret'.op = "CreateVideoSession"
    /\ ret'.appt \in 1..Len(appointments)
    /\ ret'.actor \in {appointments[ret'.appt].patientId, appointments[ret'.appt].doctorId}

OtherActiveOnSlot(id, s) ==
    \E j \in 1..Len(appointments) :
        j # id /\ appointments[j].slotId = s /\ appointments[j].status \in ActiveStatuses

OneActivePerSlot ==
    \A i, j \in 1..Len(appointments) :
        (/\ i # j
         /\ appointments[i].slotId # NULL
         /\ appointments[i].slotId = appointments[j].slotId
         /\ appointments[i].status \in ActiveStatuses)
        => appointments[j].status \notin ActiveStatuses

\* The call that has just returned would have made a second active
\* appointment on a slot: a booking of a slot that has an active appointment,
\* or a change to an active status of an appointment whose slot has another
\* active appointment.
SecondActiveAttempt ==
    \/ /\ ret'.op = "CreateAppointment"
       /\ ret'.target # NULL
       /\ OtherActiveOnSlot(NULL, ret'.target)
    \/ /\ ret'.op = "UpdateAppointmentStatus"
       /\ ret'.appt \in 1..Len(appointments)
       /\ ret'.status \in ActiveStatuses
       /\ appointments[ret'.appt].slotId # NULL
       /\ OtherActiveOnSlot(ret'.appt, appointments[ret'.appt].slotId)

\* C9: after any sequence of bookings and status changes every slot is
\* referenced by at most one appointment whose status is pending or
\* confirmed, and a CreateAppointment or status change that would make a
\* second active appointment on a slot fails and changes nothing.
C9_OneActivePerSlot ==
    /\ []OneActivePerSlot
    /\ [][SecondActiveAttempt => (ret'.err # "" /\ appointments' = appointments)]_vars

\* A status change that would have revived a second appointment on a slot
\* that has an active one was refused by the storage.
C9_Witness ==
    /\ ret.op = "UpdateAppointmentStatus"
    /\ ret.err = "db error"
    /\ ret.appt \in 1..Len(appointments)
    /\ appointments[ret.appt].slotId # NULL
    /\ OtherActiveOnSlot(ret.appt, appointments[ret.appt].slotId)

(* ======================= claims on SpecSlots =========================== *)
\* C10: DeleteSlot on a stored slot that has an attached active (pending or
\* confirmed) appointment fails with a conflict error, also for the owning
\* doctor, and the slot remains stored.
C10_DeleteRefused ==
    [][(/\ ret'.op = "DeleteSlot"
        /\ ret'.target \in 1..Len(slots)
        /\ ~slots[ret'.target].deleted
        /\ OtherActiveOnSlot(NULL, ret'.target))
       => (IsConflict(ret'.err) /\ ~slots'[ret'.target].deleted)]_vars

(* ======================= claims on SpecStatusAuth ====================== *)
\* The call that just returned was made on a stored appointment by a user
\* the operation is not open to: UpdateAppointmentStatus by anyone but the
\* appointment's doctor, CancelAppointment by anyone but its patient or doctor.
WrongActorCall ==
    /\ ret'.appt \in 1..Len(appointments)
    /\ \/ /\ ret'.op = "UpdateAppointmentStatus"
          /\ ret'.actor # appointments[ret'.appt].doctorId
       \/ /\ ret'.op = "CancelAppointment"
          /\ ret'.actor # appointments[ret'.appt].patientId
          /\ ret'.actor # appointments[ret'.appt].doctorId

\* C11: a status-change call by the wrong actor (UpdateAppointmentStatus by
\* a user other than the appointment's doctor, CancelAppointment by a user
\* who is neither its patient nor its doctor) returns a forbidden error and
\* leaves the appointment's status and notes unchanged.
C11_ActorChecked ==
    [][WrongActorCall
       => (/\ IsForbidden(ret'.err)
           /\ appointments'[ret'.appt].status = appointments[ret'.appt].status
           /\ appointments'[ret'.appt].notes = appointments[ret'.appt].notes)]_vars

\* Another doctor asked for a different status with a note and was refused.
C11_Witness ==
    /\ ret.op = "UpdateAppointmentStatus"
    /\ ret.appt \in 1..Len(appointments)
    /\ Role(ret.actor) = "doctor"
    /\ ret.actor # appointments[ret.appt].doctorId
    /\ ret.status # appointments[ret.appt].status
    /\ IsForbidden(ret.err)

(* ======================= claims on SpecBooking ========================= *)
\* The CreateAppointment call that just returned inserted a row.
Inserted == CallStep /\ ret'.op = "CreateAppointment" /\ Len(appointments') = Len(appointments) + 1

NewRow == appointments'[Len(appointments')]

\* The status-change call that just returned was made on stored appointment
\* ret'.appt, found in status `from`, by one of the users in `who`.
StatusCall(op, from, who) ==
    /\ CallStep
    /\ ret'.op = op
    /\ ret'.appt \in 1..Len(appointments)
    /\ appointments[ret'.appt].status \in from
    /\ \E f \in who : ret'.actor = appointments[ret'.appt][f]

Yields(status) == ret'.err = "" /\ appointments'[ret'.appt].status = status

\* The accepting steps of the lifecycle, without the overlap rule.
LifecycleAccepted ==
    /\ (CallStep /\ ret'.op = "CreateAppointment" /\ ret'.err = "")
       => (Inserted /\ NewRow.status = "pending")
    /\ (StatusCall("UpdateAppointmentStatus", {"pending"}, {"doctorId"})
        /\ ret'.status = "confirmed") => Yields("confirmed")
    /\ (StatusCall("UpdateAppointmentStatus", {"confirmed"}, {"doctorId"})
        /\ ret'.status = "completed") => Yields("completed")
    /\ StatusCall("CancelAppointment", {"pending", "confirmed"}, {"patientId", "doctorId"})
       => Yields("cancelled")
    /\ StatusCall("CancelAppointment", {"completed"}, {"patientId", "doctorId"})
       => (ret'.err # "" /\ appointments'[ret'.appt].status = "completed")

\* C12: the legal lifecycle is accepted: a successful booking is pending; a
\* booking that overlaps an earlier active booking of the same doctor is not
\* accepted; the doctor's confirm of a pending appointment yields confirmed,
\* the doctor's complete of a confirmed one yields completed, a participant's
\* cancel of a pending or confirmed one yields cancelled, and a cancel after
\* completion is rejected.
C12_LegalLifecycle ==
    [][/\ LifecycleAccepted
       /\ Inserted
          => \A i \in 1..Len(appointments) :
                (appointments[i].doctorId = NewRow.doctorId /\ IsActive(appointments[i]))
                => ~BookedOverlap(appointments[i], NewRow)]_vars

\* C13: CreateAppointment inserts an appointment only when every
\* precondition holds: the doctor id is a user with role doctor, the patient
\* id is a user with role patient, the start is not before the current time
\* and the end is strictly after the start; otherwise it fails and inserts
\* nothing.
C13_PreconditionsEnforced ==
    [][Inserted
       => (/\ Role(NewRow.doctorId) = "doctor"
           /\ Role(NewRow.patientId) = "patient"
           /\ NewRow.bookedStart >= now
           /\ NewRow.bookedEnd > NewRow.bookedStart)]_vars

\* C14: a successful CreateAppointment inserts exactly one appointment,
\* with status pending and with the patient, slot and time range asked for:
\* the start_time and end_time stored in the row, which later bookings are
\* tested against, are the requested ones.
C14_StoresRequest ==
    [][(CallStep /\ ret'.op = "CreateAppointment" /\ ret'.err = "")
       => (/\ Inserted
           /\ SubSeq(appointments', 1, Len(appointments)) = appointments
           /\ NewRow.status = "pending"
           /\ NewRow.patientId = ret'.actor
           /\ NewRow.slotId = ret'.target
           /\ NewRow.startTime = NewRow.bookedStart
           /\ NewRow.endTime = NewRow.bookedEnd)]_vars

\* C15: a CreateAppointment call that returns an error, a failure after the
\* insert step included, leaves no appointment of that call in the store.
C15_NoRowOnError ==
    [][(CallStep /\ ret'.op = "CreateAppointment" /\ ret'.err # "")
       => appointments' = appointments]_vars

\* C17: CreateAppointment tests the requested range against every
\* non-cancelled appointment of the doctor: it inserts no appointment whose
\* range overlaps a pending, confirmed or completed appointment of that
\* doctor, and it answers with a conflict only when such an appointment is
\* stored (cancelled ones are not in the way).
C17_NonCancelledBlock ==
    [][/\ Inserted
          => \A i \in 1..Len(appointments) :
                (/\ appointments[i].doctorId = NewRow.doctorId
                 /\ appointments[i].status # "cancelled")
                => ~BookedOverlap(appointments[i], NewRow)
       /\ (CallStep /\ ret'.op = "CreateAppointment" /\ IsConflict(ret'.err))
          => \E i \in 1..Len(appointments) : appointments[i].status # "cancelled"]_vars

(* ======================= claims on SpecOverlap ========================= *)
\* C16: for a stored range [a,b] and a requested range [c,d] with a < b and
\* c < d, the three-clause predicate of the range query is true exactly when
\* the ranges share an instant (a <= d and c <= b), it gives the same answer
\* with the two ranges exchanged, and so a request that starts at the instant
\* the stored range ends is found overlapping.
C16_ThreeClauseIsOverlap ==
    \A q \in 1..Len(calls) :
        calls[q].op = "query" =>
            LET a == appointments[1].startTime
                b == appointments[1].endTime
                c == calls[q].req.startTime
                d == calls[q].req.endTime
            IN  /\ ThreeClause(a, b, c, d) <=> (a <= d /\ c <= b)
                /\ ThreeClause(a, b, c, d) <=> ThreeClause(c, d, a, b)
                /\ c = b => ThreeClause(a, b, c, d)
                /\ (1 \in ret.data)
                   <=> (calls[q].req.doctorId = appointments[1].doctorId /\ a <= d /\ c <= b)

\* A request for the row's doctor that starts where the row ends was found.
C16_Witness ==
    /\ Len(calls) = 1
    /\ calls[1].op = "query"
    /\ calls[1].req.startTime = appointments[1].endTime
    /\ ret.op = "FindByDoctorAndTimeRange"
    /\ 1 \in ret.data

(* ======================= claims on SpecSlotCuration ==================== *)
\* C18: a slot is mutable by its owning doctor only: UpdateSlot and
\* DeleteSlot on a stored slot by an actor other than slot.doctorId fail
\* with a forbidden error and leave the slot as it was, status and existence.
C18_OwnerOnly ==
    [][(/\ CallStep
        /\ ret'.op \in {"UpdateSlot", "DeleteSlot"}
        /\ SlotStored(slots, ret'.target)
        /\ ret'.actor # slots[ret'.target].doctorId)
       => (IsForbidden(ret'.err) /\ slots' = slots)]_vars

\* Another doctor asked to delete a stored slot and was refused.
C18_Witness ==
    /\ ret.op = "DeleteSlot"
    /\ SlotStored(slots, ret.target)
    /\ ret.actor # slots[ret.target].doctorId
    /\ IsForbidden(ret.err)

\* C19: CreateSlot succeeds exactly when its start is not before the
\* current time and strictly before its end; on success it stores one slot
\* of the calling doctor with status open and the requested range, on
\* failure it stores nothing; the doctor's other slots play no part.
C19_CreateSlotValidation ==
    [][(CallStep /\ ret'.op = "CreateSlot")
       => LET st == ret'.args[1]
              en == ret'.args[2]
          IN  IF ParseOk(st) /\ ParseOk(en) /\ st >= now /\ st < en
              THEN /\ ret'.err = ""
                   /\ slots' = Append(slots, [id |-> Len(slots) + 1, doctorId |-> ret'.actor,
                                               startTime |-> st, endTime |-> en,
                                               status |-> "open", deleted |-> FALSE])
              ELSE ret'.err # "" /\ slots' = slots]_vars

\* A doctor's second slot was stored although it overlaps the first.
C19_Witness ==
    /\ ret.op = "CreateSlot"
    /\ ret.err = ""
    /\ ret.target = 2
    /\ Len(slots) = 2
    /\ slots[1].doctorId = slots[2].doctorId
    /\ ~slots[1].deleted
    /\ RangesOverlap(slots[1].startTime, slots[1].endTime, slots[2].startTime, slots[2].endTime)

(* ======================= claims on SpecChat ============================ *)
\* The call that just returned was MarkMessagesAsRead by a participant of
\* the stored appointment ret'.appt.
ParticipantMark ==
    /\ CallStep
    /\ ret'.op = "MarkMessagesAsRead"
    /\ ret'.appt \in 1..Len(appointments)
    /\ IsParticipant(appointments[ret'.appt], ret'.actor)

\* Message i is one the call marks: of the call's appointment, not sent by
\* the caller.
MarkedByCall(i) ==
    messages[i].appointmentId = ret'.appt /\ messages[i].senderUserId # ret'.actor

\* C20: a message goes from unread to read only through MarkMessagesAsRead,
\* and a call by participant U on appointment A marks exactly the unread
\* messages of A not sent by U; messages sent by U and messages of other
\* appointments stay as they are, a message is stored unread, and a read
\* message never becomes unread again.
C20_ReadOnlyByMark ==
    [][/\ Len(messages') >= Len(messages)
       /\ \A i \in 1..Len(messages') :
             IF i > Len(messages) THEN messages'[i].readAt = NULL
             ELSE /\ messages[i].readAt # NULL => messages'[i] = messages[i]
                  /\ messages[i].readAt = NULL =>
                        IF ParticipantMark /\ MarkedByCall(i)
                        THEN messages'[i] = [messages[i] EXCEPT !.readAt = now]
                        ELSE messages'[i] = messages[i]]_vars

\* The doctor of one appointment marked its chat read: the patient's
\* message there is read, the doctor's own is not, and a message of the
\* patient in another appointment's chat is still unread.
C20_Witness ==
    /\ ret.op = "MarkMessagesAsRead"
    /\ ret.err = ""
    /\ \E i, j, k \in 1..Len(messages) :
          /\ messages[i].appointmentId = ret.appt
          /\ messages[i].senderUserId # ret.actor
          /\ messages[i].readAt # NULL
          /\ messages[j].appointmentId = ret.appt
          /\ messages[j].senderUserId = ret.actor
          /\ messages[j].readAt = NULL
          /\ messages[k].appointmentId # ret.appt
          /\ messages[k].senderUserId # ret.actor
          /\ messages[k].readAt = NULL

(* ======================= more claims on SpecChat ======================= *)
\* The number of messages of appointment a that wait for user u: sent by
\* someone else and not read.
Waiting(table, a, u) ==
    Cardinality({i \in 1..Len(table) :
                    /\ table[i].appointmentId = a
                    /\ table[i].senderUserId # u
                    /\ table[i].readAt = NULL})

\* The call that just returned was `op` by a participant of the stored
\* appointment ret'.appt.
ParticipantCall(op) ==
    /\ CallStep
    /\ ret'.op = op
    /\ ret'.appt \in 1..Len(appointments)
    /\ IsParticipant(appointments[ret'.appt], ret'.actor)

\* C21: GetUnreadCount(A, U) of a participant U is the number of messages
\* of A not sent by U and not read; so it is 0 right after
\* MarkMessagesAsRead(A, U), and each SendMessage raises it by exactly one
\* for the other participant and not at all for the sender.
C21_UnreadCountDerived ==
    [][/\ ParticipantCall("GetUnreadCount")
          => (/\ ret'.err = ""
              /\ ret'.count = Waiting(messages, ret'.appt, ret'.actor))
       /\ ParticipantCall("MarkMessagesAsRead")
          => (ret'.err = "" /\ Waiting(messages', ret'.appt, ret'.actor) = 0)
       /\ ParticipantCall("SendMessage")
          => LET a == appointments[ret'.appt]
             IN  /\ ret'.err = ""
                 /\ \A u \in {a.patientId, a.doctorId} :
                       Waiting(messages', ret'.appt, u) =
                           Waiting(messages, ret'.appt, u) + (IF u = ret'.actor THEN 0 ELSE 1)]_vars

\* A participant was told 1 while the chat also holds a message of their own
\* and a message of the other participant that is read.
C21_Witness ==
    /\ ret.op = "GetUnreadCount"
    /\ ret.err = ""
    /\ ret.count = 1
    /\ \E i, j \in 1..Len(messages) :
          /\ messages[i].appointmentId = ret.appt
          /\ messages[i].senderUserId = ret.actor
          /\ messages[j].appointmentId = ret.appt
          /\ messages[j].senderUserId # ret.actor
          /\ messages[j].readAt # NULL

(* ======================= more claims on SpecAccess ===================== *)
PrescriptionWrites == {"CreatePrescription", "UpdatePrescription", "DeletePrescription"}

\* C22: a prescription is created, updated or deleted only by the doctor of
\* its appointment: the call made by the appointment's patient or by any
\* other user, another doctor included, fails and leaves the prescriptions
\* and their contents unchanged.
C22_DoctorOnlyWrites ==
    [][(/\ CallStep
        /\ ret'.op \in PrescriptionWrites
        /\ ret'.appt \in 1..Len(appointments)
        /\ ret'.actor # appointments[ret'.appt].doctorId)
       => (ret'.err # "" /\ prescriptions' = prescriptions)]_vars

\* The patient asked to update a stored prescription of their appointment
\* and was refused.
C22_Witness ==
    /\ ret.op = "UpdatePrescription"
    /\ PrescriptionStored(prescriptions, ret.target)
    /\ ret.appt \in 1..Len(appointments)
    /\ ret.actor = appointments[ret.appt].patientId
    /\ ret.err # ""

\* A successful call of the given kind returned in this step.
Succeeded(op) == CallStep /\ ret'.op = op /\ ret'.err = ""

\* C23: the item list of a prescription is replaced as a whole: after a
\* successful CreatePrescription or UpdatePrescription with list L the stored
\* text decodes to exactly L, in order, nothing else of the row but the notes
\* changes and the stored text depends on L alone (so the same update twice
\* is the update once); GetPrescriptionItems right after a successful update
\* hands back the list of that update.
C23_ItemsReplaced ==
    [][/\ \A op \in {"CreatePrescription", "UpdatePrescription"} :
              Succeeded(op) =>
                  /\ UnmarshalItems(prescriptions'[ret'.target].itemsJSON) = ret'.args
                  /\ MarshalItems(ret'.args) = prescriptions'[ret'.target].itemsJSON
       /\ Succeeded("UpdatePrescription") =>
              prescriptions' = [prescriptions EXCEPT
                                   ![ret'.target].itemsJSON = prescriptions'[ret'.target].itemsJSON,
                                   ![ret'.target].notes = prescriptions'[ret'.target].notes]
       /\ (/\ Succeeded("GetPrescriptionItems")
           /\ ret.op = "UpdatePrescription" /\ ret.err = ""
           /\ ret.target = ret'.target)
          => ret'.args = ret.args]_vars

\* An updated prescription was read back as the list of one item whose
\* dosage is a backslash and a u.
C23_Witness ==
    /\ ret.op = "GetPrescriptionItems"
    /\ prescriptions[ret.target].notes = "u"
    /\ Len(ret.args) = 1
    /\ ret.args[1].dosage = <<"\\", "u">>
    /\ ret.args \in ItemLists

(* ======================= claims on SpecAccess ========================== *)
\* C32: in every state, the sender of every message is the patient or the
\* doctor of the message's appointment, the createdByDoctorId of every
\* prescription is the doctor of its appointment, and every video session
\* belongs to an appointment there is.
C32_RowsBelong ==
    /\ \A i \in 1..Len(messages) :
           /\ messages[i].appointmentId \in 1..Len(appointments)
           /\ IsParticipant(appointments[messages[i].appointmentId], messages[i].senderUserId)
    /\ \A i \in 1..Len(prescriptions) :
           /\ prescriptions[i].appointmentId \in 1..Len(appointments)
           /\ prescriptions[i].createdByDoctorId
                  = appointments[prescriptions[i].appointmentId].doctorId
    /\ \A i \in 1..Len(sessions) : sessions[i].appointmentId \in 1..Len(appointments)

\* A message, a prescription and a video session are stored, and the other
\* doctor has just been refused an update of the prescription.
C32_Witness ==
    /\ Len(messages) > 0 /\ Len(sessions) > 0
    /\ \E i \in 1..Len(prescriptions) : PrescriptionStored(prescriptions, i)
    /\ ret.op = "UpdatePrescription" /\ ret.err # ""
    /\ Role(ret.actor) = "doctor"
    /\ ret.actor # appointments[ret.appt].doctorId

(* ======================= claims on SpecSlotCuration ==================== *)
SlotStatuses == {"open", "blocked"}

\* C33: the status of every slot is open or blocked: UpdateSlot asking for
\* another status that is not empty fails and leaves the slots as they
\* were, UpdateSlot with an empty status changes no status, and no step
\* changes the doctorId, start or end of a slot.
C33_SlotStatusKept ==
    [][/\ \A i \in 1..Len(slots') : slots'[i].status \in SlotStatuses
       /\ \A i \in 1..Len(slots) :
              /\ slots'[i].doctorId = slots[i].doctorId
              /\ slots'[i].startTime = slots[i].startTime
              /\ slots'[i].endTime = slots[i].endTime
       /\ (CallStep /\ ret'.op = "UpdateSlot" /\ ret'.status \notin SlotStatuses \cup {""})
          => (ret'.err # "" /\ slots' = slots)
       /\ (CallStep /\ ret'.op = "UpdateSlot" /\ ret'.status = "")
          => slots' = slots]_vars

\* The owner of a blocked slot asked for the status closed and was refused.
C33_Witness ==
    /\ ret.op = "UpdateSlot" /\ ret.status = "closed" /\ ret.err = "invalid status"
    /\ SlotStored(slots, ret.target)
    /\ slots[ret.target].doctorId = ret.actor
    /\ slots[ret.target].status = "blocked"

(* ======================= claims on SpecVideo =========================== *)
\* The call of the given kind that returned in this step was made by a
\* participant of the appointment of the session it addressed.
ParticipantSessionCall(op) ==
    /\ ret'.op = op
    /\ ret'.target \in 1..Len(sessions)
    /\ IsParticipant(appointments[sessions[ret'.target].appointmentId], ret'.actor)

\* C27: StartVideoSession by a participant succeeds and sets startedAt of
\* the addressed session to the time of the call, EndVideoSession its
\* endedAt, and nothing else in video_sessions changes; and a session whose
\* endedAt is set keeps it set in every step, so it is never live again.
C27_OnlyAddressedSession ==
    [][/\ ParticipantSessionCall("StartVideoSession") =>
              /\ ret'.err = ""
              /\ sessions' = [sessions EXCEPT ![ret'.target].startedAt = now]
       /\ ParticipantSessionCall("EndVideoSession") =>
              /\ ret'.err = ""
              /\ sessions' = [sessions EXCEPT ![ret'.target].endedAt = now]
       /\ \A i \in 1..Len(sessions) :
              sessions[i].endedAt # NULL =>
                  (sessions'[i].endedAt # NULL /\ ~IsLive(sessions'[i]))]_vars

\* An ended session was started again and is not live, next to a session
\* nobody has started.
C27_Witness ==
    /\ ret.op = "StartVideoSession" /\ ret.err = ""
    /\ sessions[ret.target].startedAt # NULL
    /\ sessions[ret.target].endedAt # NULL
    /\ ~IsLive(sessions[ret.target])
    /\ \E i \in 1..Len(sessions) :
           i # ret.target /\ sessions[i].startedAt = NULL /\ sessions[i].endedAt = NULL

\* C28: every video session whose endedAt is set has startedAt set.
C28_EndedWasStarted ==
    \A i \in 1..Len(sessions) : sessions[i].endedAt # NULL => sessions[i].startedAt # NULL

(* ======================= claims on SpecStatusAuth ====================== *)
\* C26: appointments are never removed: a step takes no row away and
\* changes no row's id, patient or doctor, and GetAppointmentDetails of a
\* created appointment by its patient or its doctor succeeds and hands back
\* that appointment, whatever its status.
C26_NeverDeleted ==
    [][/\ Len(appointments') >= Len(appointments)
       /\ \A i \in 1..Len(appointments) :
              /\ appointments'[i].id = i
              /\ appointments'[i].patientId = appointments[i].patientId
              /\ appointments'[i].doctorId = appointments[i].doctorId
       /\ (/\ ret'.op = "GetAppointmentDetails"
           /\ ret'.appt \in 1..Len(appointments)
           /\ IsParticipant(appointments[ret'.appt], ret'.actor))
          => (ret'.err = "" /\ ret'.data = {ret'.appt})]_vars

\* A participant was handed a cancelled appointment while the other
\* appointment is completed.
C26_Witness ==
    /\ ret.op = "GetAppointmentDetails" /\ ret.err = "" /\ ret.data = {ret.appt}
    /\ appointments[ret.appt].status = "cancelled"
    /\ \E i \in 1..Len(appointments) : appointments[i].status = "completed"

PrimaryState == <<appointments, slots, sessions, messages, prescriptions, uploads, now, ret>>

\* C24: audit logging is fire-and-forget: LogUserAction and LogSystemAction
\* return with the goroutine not yet run and nothing written; the goroutine,
\* whether its CreateAuditLog succeeds or fails, changes no table but
\* audit_logs and not the result the caller holds, so its error reaches no
\* caller; and a primary operation touches neither the goroutines nor
\* audit_logs, so it completes the same with them run, failed or pending.
C24_FireAndForget ==
    [][/\ calls' # calls => PrimaryState' = PrimaryState
       /\ Len(calls') > Len(calls) =>
              /\ auditLogs' = auditLogs
              /\ calls'[Len(calls')].pc = "go"
       /\ auditLogs' # auditLogs => PrimaryState' = PrimaryState
       /\ (CallStep /\ PrimaryState' # PrimaryState) =>
              /\ calls' = calls
              /\ auditLogs' = auditLogs
              /\ ret'.err \notin {"failed to marshal meta data", "db error"}]_vars

\* A cancellation went through while the goroutine logging the booking had
\* not run, after another goroutine had failed.
C24_Witness ==
    /\ ret.op = "CancelAppointment" /\ ret.err = ""
    /\ \E p, q \in 1..Len(calls) :
           /\ calls[p].pc = "done" /\ calls[p].err # ""
           /\ calls[q].pc = "go" /\ calls[q].req.action = "CreateAppointment"

(* ======================= claims on SpecSlots =========================== *)
\* What CreateAppointment returns for req on the given appointments.
CreateOutcome(table, req) ==
    IF CreateCheck(table, req, now) # "" THEN CreateCheck(table, req, now)
    ELSE CreateError(table, req)

OfDoctor(table, d) == SelectSeq(table, LAMBDA a : a.doctorId = d)

\* Every slot id in appointments names a row of availability_slots.
SlotRowsExist ==
    \A i \in 1..Len(appointments) :
        appointments[i].slotId \in {NULL} \cup (1..Len(slots))

DoctorsIndependent ==
    SlotRowsExist =>
        \A req \in CreateRequests({1}, {2, 3}, {NULL} \cup (1..Len(slots)), {""}, {MaxTime}) :
            CreateOutcome(appointments, req)
                = CreateOutcome(OfDoctor(appointments, req.doctorId), req)

C29_SlotChecked ==
    [][(/\ ret'.op = "CreateAppointment" /\ ret'.err = ""
        /\ ret'.target \in 1..Len(slots))
       => (/\ SlotStored(slots, ret'.target)
           /\ slots[ret'.target].status = "open"
           /\ slots[ret'.target].doctorId = appointments'[ret'.appt].doctorId)]_vars

\* C30: GetAvailableSlots(doctor, date) hands back only slots of that
\* doctor that are open, start after the current time and have no pending
\* or confirmed appointment attached.
C30_OnlyFreeSlots ==
    [][ret'.op = "GetAvailableSlots" =>
          \A i \in ret'.data :
              /\ slots[i].doctorId = ret'.target
              /\ slots[i].status = "open"
              /\ slots[i].startTime > now
              /\ ~\E j \in 1..Len(appointments) :
                     appointments[j].slotId = i /\ IsActive(appointments[j])]_vars

====
